---------------------------- MODULE Spec2Model ----------------------------
(***************************************************************************)
(* A model of ble-scanner-and-feeder.py: the BLE advertisement parser      *)
(* (BleAdvParser), the Ruuvi and Mijia payload decoders, the per-device    *)
(* accrue-and-flush engine (update_sensor_data over SENSOR_MAP) and the    *)
(* record loop of main.                                                    *)
(*                                                                         *)
(* Conventions.  A bytes object is a sequence of integers 0..255; Python   *)
(* index i is TLA+ index i+1.  A dict is a function whose domain is its    *)
(* key set.  A float metric is kept as an exact fixed-point integer:       *)
(* temperature in 1/1000 degree C, humidity in 1/10000 percent, pressure   *)
(* in Pa, battery voltage in mV.  time.monotonic() is an integer clock.    *)
(* A call's result is a record: [kind |-> "dict", val |-> d],              *)
(* [kind |-> "None"] or [kind |-> "raise", exc |-> name].                  *)
(***************************************************************************)
EXTENDS Integers, Sequences, FiniteSets, TLC

VARIABLES
    pc,            \* position of main / of the operation under study
    exc,           \* the exception last raised ("none" when none)
    address,       \* main: items[0]; update_sensor_data: its address argument
    rssi,          \* main: float(items[2])
    data,          \* main: the unhexlified advertisement; parse: its argument
    offset,        \* BleAdvParser.parse: the cursor
    ad_elements,   \* BleAdvParser.ad_elements
    elem_idx,      \* parse_ad_elements: how many elements the for loop has done
    mfg_data,      \* BleAdvParser.mfg_data
    service_data,  \* BleAdvParser.service_data
    payload,       \* the argument of a decoder studied alone
    metrics,       \* main: data after a decoder call; the result of a decoder
    SENSOR_MAP,    \* the module-level list of device records
    now,           \* the last value time.monotonic() returned
    sent,          \* the batches handed to send_sensor_data by the last update
    iters,         \* history: iterations of the while loop of parse begun
    built,         \* history: the TLV records a well-formed buffer was built of
    flushed_at,    \* history: per device, the times a batch was handed over
    latest         \* history: per device, for the batches since the last
                   \*   hand-over: vals, key -> value of the last batch that
                   \*   set it; stale, the keys set again to another value;
                   \*   closed, whether the last of them was handed over

vars == <<pc, exc, address, rssi, data, offset, ad_elements, elem_idx,
          mfg_data, service_data, payload, metrics, SENSOR_MAP, now, sent,
          iters, built, flushed_at, latest>>

parserVars == <<data, offset, ad_elements, elem_idx, mfg_data, service_data,
                iters>>
aggVars == <<SENSOR_MAP, now, sent, flushed_at, latest>>

---------------------------------------------------------------------------
(* Program constants *)

RUUVI_MFG_ID == 1177
MIJIA_SVC_ID == 65173
TX_INTERVAL == 30
TEMPERATURE_LABEL == "temperature"
HUMIDITY_LABEL == "humidity"

AD_TYPE_MFG == 255
AD_TYPE_SVC16 == 22

---------------------------------------------------------------------------
(* Bounds of the model *)

MaxLen == 4        \* longest arbitrary byte buffer
MaxRecords == 3    \* most TLV records in a well-formed buffer
Tick == 15         \* clock granularity
MaxTicks == 4      \* the clock runs over 0, Tick, .., MaxTicks * Tick

---------------------------------------------------------------------------
(* Python values *)

EmptyDict == [k \in {} |-> 0]
Dict(d) == [kind |-> "dict", val |-> d]
None == [kind |-> "None"]
Raise(e) == [kind |-> "raise", exc |-> e]

Min(a, b) == IF a < b THEN a ELSE b

\* data[a:b] for 0 <= a: the bytes at Python indices a .. min(b, len) - 1
Slice(s, a, b) ==
    LET hi == Min(b, Len(s))
    IN  IF a >= hi THEN <<>> ELSE [i \in 1..(hi - a) |-> s[a + i]]

\* struct.unpack_from needs `size` bytes at `off`, else struct.error
HasBytes(s, off, size) == off + size <= Len(s)

\* "<B" / "B" at off
U8(s, off) == s[off + 1]
\* "<H" at off
U16LE(s, off) == s[off + 1] + 256 * s[off + 2]
\* ">H" at off
U16BE(s, off) == 256 * s[off + 1] + s[off + 2]
S16BEUnsigned(s, off) == U16BE(s, off)

\* ">h" at off: two's complement
S16BE(s, off) ==
    LET u == U16BE(s, off) IN IF u >= 32768 THEN u - 65536 ELSE u

\* d[k] = v on a dict
DictSet(d, k, v) ==
    [x \in DOMAIN d \cup {k} |-> IF x = k THEN v ELSE d[x]]

DictUpdateFirstWins(d, e) ==
    [x \in DOMAIN d \cup DOMAIN e |-> IF x \in DOMAIN d THEN d[x] ELSE e[x]]

\* d.update(e)
DictUpdate(d, e) ==
    [x \in DOMAIN d \cup DOMAIN e |-> IF x \in DOMAIN e THEN e[x] ELSE d[x]]


---------------------------------------------------------------------------
(* The static configuration *)

InitialLastSentBackdated == 0 - TX_INTERVAL

\* 'last_sent': 0.0 of every entry (lines 22, 33, 44, 55)
InitialLastSent == 0

InitialSensorMap ==
    << [last_sent |-> InitialLastSent, accrued_data |-> EmptyDict,
        address |-> "E6:99:94:26:C5:C3", label |-> "{}",
        tags |-> [room |-> "office", location |-> "window"]],
       [last_sent |-> InitialLastSent, accrued_data |-> EmptyDict,
        address |-> "C1:2F:56:FB:6A:0A", label |-> "{}",
        tags |-> [room |-> "bedroom", location |-> "window"]],
       [last_sent |-> InitialLastSent, accrued_data |-> EmptyDict,
        address |-> "F6:8C:F2:8D:6E:A3", label |-> "{}",
        tags |-> [room |-> "living", location |-> "tv"]],
       [last_sent |-> InitialLastSent, accrued_data |-> EmptyDict,
        address |-> "4C:65:A8:D4:03:E3", label |-> "{}",
        tags |-> [room |-> "hallway", location |-> "kitchen"]] >>

Devices == 1..Len(InitialSensorMap)

\* The state every specification starts from; each draws its inputs (data,
\* payload, built) itself.
Idle ==
    /\ exc = "none"
    /\ address = ""
    /\ rssi = 0
    /\ offset = 0
    /\ ad_elements = <<>>
    /\ elem_idx = 0
    /\ mfg_data = EmptyDict
    /\ service_data = EmptyDict
    /\ metrics = None
    /\ SENSOR_MAP = InitialSensorMap
    /\ now = 0
    /\ sent = <<>>
    /\ iters = 0
    /\ flushed_at = [d \in Devices |-> <<>>]
    /\ latest = [d \in Devices |->
                   [vals |-> EmptyDict, stale |-> {}, closed |-> FALSE,
                    calls |-> 0]]

---------------------------------------------------------------------------
(* BleAdvParser *)

\* line 160: an element is captured when length - 1 > 0
Captures(length) == length - 1 > 0

AdDataLong(buf, off, length) == Slice(buf, off + 2, off + 2 + length)

\* line 162: ad_data = data[offset + 2 : offset + 2 + ad_length]
AdData(buf, off, length) == Slice(buf, off + 2, off + 2 + (length - 1))

NextOffsetStuck(off, length) == off + length

\* line 165: offset += length + 1
NextOffset(off, length) == off + length + 1

\* One pass of `while offset < len(data)` (lines 158-165); the exit of the
\* loop goes on to self.parse_ad_elements() (line 167).  unpack_from("<BB")
\* raises struct.error when fewer than 2 bytes are left at offset.
parse(onRaise) ==
    /\ pc = "parse"
    /\ IF offset < Len(data)
       THEN /\ iters' = iters + 1
            /\ IF ~HasBytes(data, offset, 2)
               THEN /\ pc' = onRaise
                    /\ exc' = "struct.error"
                    /\ UNCHANGED <<offset, ad_elements>>
               ELSE LET length == U8(data, offset)
                        ad_type == U8(data, offset + 1)
                    IN  /\ ad_elements' =
                              IF Captures(length)
                              THEN Append(ad_elements,
                                     [ad_type |-> ad_type,
                                      ad_data |-> AdData(data, offset, length)])
                              ELSE ad_elements
                        /\ offset' = NextOffset(offset, length)
                        /\ UNCHANGED <<pc, exc>>
       ELSE /\ pc' = "parse_ad_elements"
            /\ UNCHANGED <<exc, offset, ad_elements, iters>>
    /\ UNCHANGED <<address, rssi, data, elem_idx, mfg_data, service_data,
                   payload, metrics, built>>
    /\ UNCHANGED aggVars

TableSetKeepFirst(table, ad_data) ==
    IF U16LE(ad_data, 0) \in DOMAIN table
    THEN table
    ELSE DictSet(table, U16LE(ad_data, 0), Slice(ad_data, 2, Len(ad_data)))

\* lines 149-150 / 153-154: table[unpack('<H', ad_data)] = ad_data[2:]
TableSet(table, ad_data) ==
    DictSet(table, U16LE(ad_data, 0), Slice(ad_data, 2, Len(ad_data)))

\* One pass of `for e in self.ad_elements` (lines 143-154); when the list
\* is done parse returns.  unpack_from('<H') raises struct.error on an
\* ad_data of fewer than 2 bytes.
parse_ad_elements(onReturn, onRaise) ==
    /\ pc = "parse_ad_elements"
    /\ IF elem_idx < Len(ad_elements)
       THEN LET e == ad_elements[elem_idx + 1]
            IN  IF e.ad_type \in {AD_TYPE_MFG, AD_TYPE_SVC16}
                   /\ ~HasBytes(e.ad_data, 0, 2)
                THEN /\ pc' = onRaise
                     /\ exc' = "struct.error"
                     /\ UNCHANGED <<elem_idx, mfg_data, service_data>>
                ELSE /\ mfg_data' = IF e.ad_type = AD_TYPE_MFG
                                    THEN TableSet(mfg_data, e.ad_data)
                                    ELSE mfg_data
                     /\ service_data' = IF e.ad_type = AD_TYPE_SVC16
                                        THEN TableSet(service_data, e.ad_data)
                                        ELSE service_data
                     /\ elem_idx' = elem_idx + 1
                     /\ UNCHANGED <<pc, exc>>
       ELSE /\ pc' = onReturn
            /\ UNCHANGED <<exc, elem_idx, mfg_data, service_data>>
    /\ UNCHANGED <<address, rssi, data, offset, ad_elements, payload, metrics,
                   iters, built>>
    /\ UNCHANGED aggVars

---------------------------------------------------------------------------
(* SpecParse: p = BleAdvParser(); p.parse(data) on every byte buffer of at *)
(* most MaxLen bytes over Bytes.                                           *)

Bytes == {0, 1, 2, 3, 4, AD_TYPE_SVC16, AD_TYPE_MFG}

Buffers == UNION {[1..n -> Bytes] : n \in 0..MaxLen}

InitParse ==
    /\ Idle
    /\ pc = "parse"
    /\ data \in Buffers
    /\ payload = <<>>
    /\ built = <<>>

ParseCall == parse("raised")
ParseElementsCall == parse_ad_elements("parsed", "raised")

NextParse == ParseCall \/ ParseElementsCall

SpecParse == InitParse /\ [][NextParse]_vars

---------------------------------------------------------------------------
(* SpecTlv: parse on buffers built by concatenating well-formed TLV        *)
(* records [length][type][length - 1 bytes], length >= 1; a manufacturer   *)
(* or service element carries its 16-bit identifier little-endian first.   *)

Bodies == {<<>>, <<5>>, <<5, 7>>}

IdElements ==
    {[ad_type |-> t, id |-> i, body |-> b] :
        t \in {AD_TYPE_MFG}, i \in {RUUVI_MFG_ID}, b \in Bodies}
    \cup {[ad_type |-> t, id |-> i, body |-> b] :
        t \in {AD_TYPE_SVC16}, i \in {MIJIA_SVC_ID}, b \in Bodies}
    \cup {[ad_type |-> AD_TYPE_MFG, id |-> 76, body |-> <<2>>],
          [ad_type |-> AD_TYPE_SVC16, id |-> RUUVI_MFG_ID, body |-> <<9>>]}

PlainElements ==
    {[ad_type |-> 1, body |-> <<6>>], [ad_type |-> 9, body |-> <<>>]}

WellFormedElements == IdElements \cup PlainElements

HasId(r) == r.ad_type \in {AD_TYPE_MFG, AD_TYPE_SVC16}

\* the bytes after the type byte
ElementData(r) ==
    IF HasId(r) THEN <<r.id % 256, r.id \div 256>> \o r.body ELSE r.body

EncodeElement(r) == <<Len(ElementData(r)) + 1, r.ad_type>> \o ElementData(r)

RECURSIVE EncodeAll(_)
EncodeAll(rs) ==
    IF rs = <<>> THEN <<>> ELSE EncodeElement(Head(rs)) \o EncodeAll(Tail(rs))

InitTlv ==
    /\ Idle
    /\ pc = "parse"
    /\ built \in UNION {[1..n -> WellFormedElements] : n \in 0..MaxRecords}
    /\ data = EncodeAll(built)
    /\ payload = <<>>

SpecTlv == InitTlv /\ [][NextParse]_vars

---------------------------------------------------------------------------
(* update_sensor_data and send_sensor_data *)

\* str.casefold() on the address strings that occur in the model
Casefold(a) ==
    CASE a = "E6:99:94:26:C5:C3" -> "e6:99:94:26:c5:c3"
      [] a = "e6:99:94:26:C5:c3" -> "e6:99:94:26:c5:c3"
      [] a = "C1:2F:56:FB:6A:0A" -> "c1:2f:56:fb:6a:0a"
      [] a = "F6:8C:F2:8D:6E:A3" -> "f6:8c:f2:8d:6e:a3"
      [] a = "4C:65:A8:D4:03:E3" -> "4c:65:a8:d4:03:e3"
      [] a = "AA:BB:CC:DD:EE:FF" -> "aa:bb:cc:dd:ee:ff"
      [] OTHER -> a

MatchesAny(sensor, addr) == TRUE

MatchesKnown(sensor, addr) ==
    \E d \in Devices : Casefold(InitialSensorMap[d].address) = Casefold(addr)

\* line 180: sensor['address'].casefold() == address.casefold()
Matches(sensor, addr) == Casefold(sensor.address) = Casefold(addr)

ShouldSendStrict(since_last) == since_last > TX_INTERVAL

\* line 185: since_last >= TX_INTERVAL
ShouldSend(since_last) == since_last >= TX_INTERVAL

\* lines 189-198: one entry per key of the accrued dict.  The list is in
\* the dict's key order; the model fixes an order by CHOOSE.
RECURSIVE JsonBodyOver(_, _, _)
JsonBodyOver(keys, acc, tags) ==
    IF keys = {} THEN <<>>
    ELSE LET k == CHOOSE x \in keys : TRUE
         IN  <<[measurement |-> k, tags |-> tags,
                fields |-> [value |-> acc[k]]]>>
             \o JsonBodyOver(keys \ {k}, acc, tags)

JsonBodyFirstKey(sensor) ==
    IF DOMAIN sensor.accrued_data = {} THEN <<>>
    ELSE LET k == CHOOSE x \in DOMAIN sensor.accrued_data : TRUE
         IN  <<[measurement |-> k, tags |-> sensor.tags,
                fields |-> [value |-> sensor.accrued_data[k]]]>>

JsonBody(sensor) ==
    JsonBodyOver(DOMAIN sensor.accrued_data, sensor.accrued_data, sensor.tags)

AccrueOnlyNew(sensor, batch) ==
    [sensor EXCEPT !.accrued_data = DictUpdateFirstWins(@, batch)]

\* line 183: sensor['accrued_data'].update(data)
Accrue(sensor, batch) ==
    [sensor EXCEPT !.accrued_data = DictUpdate(@, batch)]

MarkSentKeepsTime(sensor, t) == sensor

\* line 188: sensor['last_sent'] = now
MarkSent(sensor, t) == [sensor EXCEPT !.last_sent = t]

ClearAccruedKeeps(sensor) == sensor

\* line 200: sensor['accrued_data'] = {}
ClearAccrued(sensor) == [sensor EXCEPT !.accrued_data = EmptyDict]

\* The body of the for loop for the sensors i.., in list order (lines
\* 179-200), with t the value of time.monotonic() and sinkOk whether
\* send_sensor_data returns; when it raises, the exception leaves
\* update_sensor_data at line 199 and the rest is not run.
\* The result: the new SENSOR_MAP, the batches handed to the sink, raised.
RECURSIVE ScanSensors(_, _, _, _, _, _, _)
ScanSensors(i, map, addr, batch, t, sinkOk, out) ==
    IF i > Len(map) THEN [map |-> map, sent |-> out, raised |-> FALSE]
    ELSE IF ~Matches(map[i], addr)
    THEN ScanSensors(i + 1, map, addr, batch, t, sinkOk, out)
    ELSE LET since_last == t - map[i].last_sent
             accrued == Accrue(map[i], batch)
         IN  IF ~ShouldSend(since_last)
             THEN ScanSensors(i + 1, [map EXCEPT ![i] = accrued],
                              addr, batch, t, sinkOk, out)
             ELSE LET marked == MarkSent(accrued, t)
                      handed == Append(out, [sensor |-> i,
                                             points |-> JsonBody(marked)])
                  IN  IF sinkOk
                      THEN ScanSensors(i + 1,
                                       [map EXCEPT ![i] = ClearAccrued(marked)],
                                       addr, batch, t, sinkOk, handed)
                      ELSE [map |-> [map EXCEPT ![i] = marked],
                            sent |-> handed, raised |-> TRUE]

\* the configured sensors an address names, by the configuration itself
Named(addr) == {d \in Devices :
                   Casefold(InitialSensorMap[d].address) = Casefold(addr)}

Flushed(s) == {s[n].sensor : n \in DOMAIN s}

\* update_sensor_data(addr, batch): the effect on the aggregator's state.
\* time.monotonic() is read only for a matching sensor (line 181).
UpdateEffect(addr, batch, t, sinkOk) ==
    LET r == ScanSensors(1, SENSOR_MAP, addr, batch, t, sinkOk, <<>>)
    IN  /\ SENSOR_MAP' = r.map
        /\ sent' = r.sent
        /\ now' = IF \E d \in Devices : Matches(SENSOR_MAP[d], addr)
                  THEN t ELSE now
        /\ flushed_at' = [d \in Devices |->
                            IF d \in Flushed(r.sent)
                            THEN Append(flushed_at[d], t) ELSE flushed_at[d]]
        /\ latest' = [d \in Devices |->
                        IF d \notin Named(addr) THEN latest[d]
                        ELSE LET base == IF latest[d].closed
                                         THEN [vals |-> EmptyDict, stale |-> {}]
                                         ELSE [vals |-> latest[d].vals,
                                               stale |-> latest[d].stale]
                                 keys == DOMAIN base.vals
                             IN [vals |-> [k \in keys \cup DOMAIN batch |->
                                             IF k \in DOMAIN batch THEN batch[k]
                                             ELSE base.vals[k]],
                                 stale |-> base.stale \cup
                                           {k \in keys \cap DOMAIN batch :
                                               batch[k] /= base.vals[k]},
                                 closed |-> d \in Flushed(r.sent),
                                 calls |-> IF latest[d].calls = 0
                                           THEN 1 ELSE 2]]

UpdateRaises(addr, batch, t, sinkOk) ==
    ScanSensors(1, SENSOR_MAP, addr, batch, t, sinkOk, <<>>).raised

TimePoints == {k * Tick : k \in 0..MaxTicks}

---------------------------------------------------------------------------
(* SpecAgg: any sequence of update_sensor_data(address, data) calls under  *)
(* a non-decreasing clock, the sink accepting or failing each batch.       *)

AggBatches ==
    {b \in UNION {[ks -> {1, 2}] : ks \in SUBSET {TEMPERATURE_LABEL, "rssi"}} :
        "rssi" \in DOMAIN b => b["rssi"] = 1}
AggAddresses == {"E6:99:94:26:C5:C3", "e6:99:94:26:C5:c3",
                 "AA:BB:CC:DD:EE:FF"}

InitAgg ==
    /\ Idle
    /\ pc = "call"
    /\ data = <<>>
    /\ payload = <<>>
    /\ built = <<>>

\* one call update_sensor_data(addr, batch)
UpdateCallOver(addrs, batches) ==
    /\ pc = "call"
    /\ \E addr \in addrs, batch \in batches,
          t \in {x \in TimePoints : x >= now}, sinkOk \in BOOLEAN :
          /\ address' = addr
          /\ metrics' = Dict(batch)
          /\ UpdateEffect(addr, batch, t, sinkOk)
          /\ exc' = IF UpdateRaises(addr, batch, t, sinkOk)
                    THEN "sink" ELSE "none"
    /\ UNCHANGED <<pc, rssi, data, offset, ad_elements, elem_idx, mfg_data,
                   service_data, payload, iters, built>>

UpdateCall == UpdateCallOver(AggAddresses, AggBatches)

NextAgg == UpdateCall

SpecAgg == InitAgg /\ [][NextAgg]_vars

---------------------------------------------------------------------------
(* SpecLive: calls for one device and for an unknown address, the device   *)
(* receiving updates again and again while the clock advances: main calls  *)
(* update_sensor_data for every record it reads from the serial port and   *)
(* time.monotonic() grows between records.                                 *)

LiveBatches == {("rssi" :> 1), (TEMPERATURE_LABEL :> 1)}
LiveAddresses == {"E6:99:94:26:C5:C3", "AA:BB:CC:DD:EE:FF"}
LiveDevices == UNION {Named(a) : a \in LiveAddresses}

UpdateLive == UpdateCallOver(LiveAddresses, LiveBatches)

\* an update for device d read after the clock has advanced
ClockedUpdate(d) ==
    /\ UpdateLive
    /\ d \in Named(address')
    /\ now' > now

NextLive == UpdateLive

SpecLive ==
    /\ InitAgg
    /\ [][NextLive]_vars
    /\ \A d \in LiveDevices : WF_vars(ClockedUpdate(d))

---------------------------------------------------------------------------
(* SpecPair: calls for two of the configured devices, in any interleaving. *)

PairBatches == {("rssi" :> 1), (TEMPERATURE_LABEL :> 1)}
PairAddresses == {"E6:99:94:26:C5:C3", "4C:65:A8:D4:03:E3"}

UpdatePair == UpdateCallOver(PairAddresses, PairBatches)

NextPair == UpdatePair

SpecPair == InitAgg /\ [][NextPair]_vars

---------------------------------------------------------------------------
(* The payload decoders *)

\* parse_ruuvi_mfg_data (lines 77-100).  temperature * 0.005 is kept in
\* 1/1000 degree C, humidity * 0.0025 in 1/10000 percent, the pressure in
\* Pa and the battery voltage in mV.
IsFormat5AnyVersion(d) == Len(d) >= 15

\* line 81: fmt == 5 and len(data) >= 15
IsFormat5(d) == U8(d, 0) = 5 /\ Len(d) >= 15

parse_ruuvi_mfg_data(d) ==
    IF Len(d) < 1 THEN None
    ELSE IF IsFormat5(d)
    THEN LET temperature == S16BE(d, 1)
             humidity == U16BE(d, 3)
             atm_pressure == U16BE(d, 5)
             power_info == U16BE(d, 13)
             battery_voltage_mv == power_info \div 32
             tx_power == power_info % 32
         IN  Dict((TEMPERATURE_LABEL :> temperature * 5)
                  @@ (HUMIDITY_LABEL :> humidity * 25)
                  @@ ("atmospheric_pressure" :> atm_pressure + 50000)
                  @@ ("battery_voltage" :> battery_voltage_mv + 1600)
                  @@ ("tx_power" :> -40 + 2 * tx_power))
    ELSE Dict(EmptyDict)

\* parse_mijia_sensor_data (lines 111-131).  temperature / 10 is kept in
\* 1/1000 degree C and humidity / 10 in 1/10000 percent.  unpack_from at
\* offset 14 raises struct.error when the payload is too short for it.
MijiaDataTypeMisplaced(d) == U8(d, 10)

\* line 116: data_type, = struct.unpack_from("<B", data, offset=11)
MijiaDataType(d) == U8(d, 11)

parse_mijia_sensor_data(d) ==
    IF Len(d) < 12 THEN None
    ELSE LET data_type == MijiaDataType(d)
         IN  CASE data_type = 13 ->
                    IF ~HasBytes(d, 14, 4) THEN Raise("struct.error")
                    ELSE Dict((TEMPERATURE_LABEL :> U16LE(d, 14) * 100)
                              @@ (HUMIDITY_LABEL :> U16LE(d, 16) * 1000))
               [] data_type = 6 ->
                    IF ~HasBytes(d, 14, 2) THEN Raise("struct.error")
                    ELSE Dict(HUMIDITY_LABEL :> U16LE(d, 14) * 1000)
               [] data_type = 4 ->
                    IF ~HasBytes(d, 14, 2) THEN Raise("struct.error")
                    ELSE Dict(TEMPERATURE_LABEL :> U16LE(d, 14) * 100)
               [] data_type = 10 ->
                    IF ~HasBytes(d, 14, 1) THEN Raise("struct.error")
                    ELSE Dict("battery_percent" :> U8(d, 14))
               [] OTHER -> Dict(EmptyDict)

\* the payload of the doctest of parse_ruuvi_mfg_data (line 73)
RuuviDoctest ==
    <<5, 15, 250, 54, 201, 198, 218, 255, 232, 0, 24, 4, 0, 181, 246,
      45, 15, 45, 230, 153, 148, 38, 197, 195>>

\* its first 15 bytes: 05 0F FA 36 C9 C6 DA FF E8 00 18 04 00 B5 F6
RuuviSample == Slice(RuuviDoctest, 0, 15)

\* the payload of the doctest of parse_mijia_sensor_data (line 107)
MijiaDoctest ==
    <<80, 32, 170, 1, 21, 227, 3, 212, 168, 101, 76, 13, 16, 4,
      201, 0, 197, 1>>

---------------------------------------------------------------------------
(* SpecRuuvi: parse_ruuvi_mfg_data on payloads around the sample: every    *)
(* prefix of the doctest payload, and the sample with its format byte and  *)
(* its temperature, humidity and power-info bytes replaced by edge values. *)

EdgeBytes == {0, 127, 128, 255}

Patch(s, off, b) == [s EXCEPT ![off + 1] = b]

RuuviPayloads ==
    {Slice(RuuviDoctest, 0, n) : n \in 0..Len(RuuviDoctest)}
    \cup {Patch(RuuviSample, 0, f) : f \in {3, 4, 6}}
    \cup {Patch(RuuviDoctest, 0, 3), <<0>>, <<3>>, <<3, 15, 250>>}
    \cup {Patch(Patch(Patch(Patch(Patch(RuuviSample, 1, t1), 2, t2),
                            3, h), 13, p1), 14, p2) :
             t1 \in EdgeBytes, t2 \in EdgeBytes, h \in {54, 255},
             p1 \in EdgeBytes, p2 \in EdgeBytes}

InitRuuvi ==
    /\ Idle
    /\ pc = "decode"
    /\ payload \in RuuviPayloads
    /\ data = <<>>
    /\ built = <<>>

DecodeRuuvi ==
    /\ pc = "decode"
    /\ metrics' = parse_ruuvi_mfg_data(payload)
    /\ pc' = "decoded"
    /\ UNCHANGED <<exc, address, rssi, payload, built>>
    /\ UNCHANGED parserVars
    /\ UNCHANGED aggVars

NextRuuvi == DecodeRuuvi

SpecRuuvi == InitRuuvi /\ [][NextRuuvi]_vars

---------------------------------------------------------------------------
(* SpecMijia: parse_mijia_sensor_data on payloads around the doctest: its  *)
(* prefixes under every sub-type byte, and the whole payload with the      *)
(* field bytes at offsets 14..17 replaced by edge values.                  *)

MijiaSubTypes == {13, 6, 4, 10, 0, 16, 255}

MijiaPayloads ==
    {Slice(MijiaDoctest, 0, n) : n \in 0..11}
    \cup {Patch(Slice(MijiaDoctest, 0, n), 11, st) :
             n \in 12..Len(MijiaDoctest), st \in MijiaSubTypes}
    \cup {Patch(Patch(Patch(Patch(Patch(MijiaDoctest, 11, st), 14, a), 15, b),
                      16, c), 17, e) :
             st \in MijiaSubTypes, a \in {0, 201, 255}, b \in {0, 255},
             c \in {197, 255}, e \in {1, 255}}

InitMijia ==
    /\ Idle
    /\ pc = "decode"
    /\ payload \in MijiaPayloads
    /\ data = <<>>
    /\ built = <<>>

DecodeMijia ==
    /\ pc = "decode"
    /\ metrics' = parse_mijia_sensor_data(payload)
    /\ pc' = "decoded"
    /\ UNCHANGED <<exc, address, rssi, payload, built>>
    /\ UNCHANGED parserVars
    /\ UNCHANGED aggVars

NextMijia == DecodeMijia

SpecMijia == InitMijia /\ [][NextMijia]_vars

---------------------------------------------------------------------------
(* Spec: the record loop of main (lines 209-244).  The serial reader hands *)
(* over lines; a line that cannot be split, converted or unhexlified       *)
(* raises one of the handled exceptions and the loop reads the next one.   *)
(* The advertisements are the truncations of a Ruuvi and of a Mijia        *)
(* advertisement, both in one buffer, and the two with an unsupported      *)
(* format / sub-type.  An exception no handler names leaves main.          *)

RuuviAdv ==
    EncodeElement([ad_type |-> AD_TYPE_MFG, id |-> RUUVI_MFG_ID,
                   body |-> RuuviSample])
MijiaAdv ==
    EncodeElement([ad_type |-> AD_TYPE_SVC16, id |-> MIJIA_SVC_ID,
                   body |-> MijiaDoctest])

MainBuffers ==
    {Slice(RuuviAdv, 0, n) : n \in 0..Len(RuuviAdv)}
    \cup {Slice(MijiaAdv, 0, n) : n \in 0..Len(MijiaAdv)}
    \cup {RuuviAdv \o MijiaAdv,
          Patch(RuuviAdv, 4, 3),
          Patch(MijiaAdv, 15, 0)}

MainAddresses == {"e6:99:94:26:C5:c3", "AA:BB:CC:DD:EE:FF"}

\* the exceptions the except clauses of main name (lines 237-244)
Handled == {"UnicodeDecodeError", "IndexError", "binascii.Error", "ValueError"}

\* What send_sensor_data may do: return, or raise an exception of the
\* client library: one main does not handle (a connection error is an
\* OSError) or one it does (a ValueError).
SinkOutcomes == {"ok", "OSError", "ValueError"}

InitMain ==
    /\ Idle
    /\ pc = "read"
    /\ data = <<>>
    /\ payload = <<>>
    /\ built = <<>>

\* the end of one pass of `while True`: the locals are rebound by the next
BackToRead ==
    /\ pc' = "read"
    /\ address' = ""
    /\ rssi' = 0
    /\ data' = <<>>
    /\ offset' = 0
    /\ ad_elements' = <<>>
    /\ elem_idx' = 0
    /\ mfg_data' = EmptyDict
    /\ service_data' = EmptyDict
    /\ metrics' = None
    /\ iters' = 0

\* an exception leaves the try block: handled (the loop goes on) or not
\* (it leaves main)
Throw(e) ==
    /\ exc' = e
    /\ IF e \in Handled
       THEN BackToRead
       ELSE /\ pc' = "crashed"
            /\ UNCHANGED <<address, rssi, data, offset, ad_elements, elem_idx,
                           mfg_data, service_data, metrics, iters>>

\* lines 211-221: read a line, split it, convert, unhexlify, make a parser
ReadRecord ==
    /\ pc = "read"
    /\ \/ /\ \E e \in Handled : exc' = e
          /\ UNCHANGED <<pc, address, rssi, data>>
       \/ /\ \E a \in MainAddresses, buf \in MainBuffers :
                /\ address' = a
                /\ data' = buf
          /\ rssi' = -70
          /\ pc' = "parse"
          /\ exc' = "none"
    /\ UNCHANGED <<offset, ad_elements, elem_idx, mfg_data, service_data,
                   payload, metrics, iters, built>>
    /\ UNCHANGED aggVars

\* line 222: p.parse(data); struct.error is not handled
MainParse == parse("crashed")
MainParseElements == parse_ad_elements("ruuvi", "crashed")

\* lines 226-228 / 232-234 with the decoder's result r: data['rssi'] = rssi
\* raises TypeError on None; then update_sensor_data(address, data)
Feed(r, next) ==
    IF r.kind = "raise"
    THEN Throw(r.exc) /\ UNCHANGED aggVars
    ELSE IF r.kind = "None"
    THEN Throw("TypeError") /\ UNCHANGED aggVars
    ELSE LET m == DictSet(r.val, "rssi", rssi)
         IN  \E t \in {x \in {now, now + TX_INTERVAL} : x <= MaxTicks * Tick},
                o \in SinkOutcomes :
                /\ UpdateEffect(address, m, t, o = "ok")
                /\ IF UpdateRaises(address, m, t, o = "ok")
                   THEN Throw(o)
                   ELSE /\ exc' = "none"
                        /\ IF next = "read"
                           THEN BackToRead
                           ELSE /\ pc' = next
                                /\ metrics' = Dict(m)
                                /\ UNCHANGED <<address, rssi, data, offset,
                                               ad_elements, elem_idx, mfg_data,
                                               service_data, iters>>

\* lines 224-228
RuuviStep ==
    /\ pc = "ruuvi"
    /\ IF RUUVI_MFG_ID \in DOMAIN mfg_data
       THEN Feed(parse_ruuvi_mfg_data(mfg_data[RUUVI_MFG_ID]), "mijia")
       ELSE /\ pc' = "mijia"
            /\ UNCHANGED <<exc, address, rssi, metrics>>
            /\ UNCHANGED parserVars
            /\ UNCHANGED aggVars
    /\ UNCHANGED <<payload, built>>

\* lines 230-234
MijiaStep ==
    /\ pc = "mijia"
    /\ IF MIJIA_SVC_ID \in DOMAIN service_data
       THEN Feed(parse_mijia_sensor_data(service_data[MIJIA_SVC_ID]), "read")
       ELSE /\ BackToRead
            /\ UNCHANGED exc
            /\ UNCHANGED aggVars
    /\ UNCHANGED <<payload, built>>

Next ==
    \/ ReadRecord
    \/ MainParse
    \/ MainParseElements
    \/ RuuviStep
    \/ MijiaStep

Spec == InitMain /\ [][Next]_vars

---------------------------------------------------------------------------
(* Properties of BleAdvParser *)

\* C1 (as stated): for every byte buffer, parse followed by
\* parse_ad_elements never raises.  Refuted: a lone length byte makes
\* unpack_from("<BB") raise struct.error, and a 0xFF / 0x16 element of
\* fewer than 2 bytes makes unpack_from('<H') raise struct.error.
C1_ParseNeverRaises == pc /= "raised"

\* C2: the parse loop terminates on every buffer: each pass that goes round
\* again moves the cursor by exactly length + 1 >= 1 (by 1 on a length byte
\* of 0), captured or not, the loop begins at most len(data) passes, it
\* leaves as soon as cursor >= len(data), and it is left normally only then.
C2_LoopTerminates ==
    /\ [](iters <= Len(data))
    /\ []((pc \in {"parse_ad_elements", "parsed"}) => offset >= Len(data))
    /\ [][pc = "parse" =>
            /\ pc' = "parse" =>
                 /\ offset' = offset + data[offset + 1] + 1
                 /\ offset' > offset
                 /\ iters' = iters + 1
            /\ offset >= Len(data) => pc' = "parse_ad_elements"]_vars

\* C2 witness: a length byte of 0 was stepped over by 1 and the loop ended.
C2_Witness ==
    /\ pc = "parse_ad_elements"
    /\ Len(data) = 3
    /\ data[1] = 0
    /\ iters = 2
    /\ offset = 3

OnlyOne(t, i) == Cardinality({n \in DOMAIN built :
                     HasId(built[n]) /\ built[n].ad_type = t
                                     /\ built[n].id = i}) = 1

BodyOf(t, i) == built[CHOOSE n \in DOMAIN built :
                     HasId(built[n]) /\ built[n].ad_type = t
                                     /\ built[n].id = i].body

\* C3: on a buffer of well-formed TLV records holding one manufacturer
\* element with id 1177 and one service element with id 0xFE95, in either
\* order and with other well-formed elements around them, parse does not
\* raise and leaves mfg_data[1177] and service_data[0xFE95] equal to the
\* bytes that followed each identifier.
C3_RecoversBothPayloads ==
    (OnlyOne(AD_TYPE_MFG, RUUVI_MFG_ID) /\ OnlyOne(AD_TYPE_SVC16, MIJIA_SVC_ID))
    => /\ pc /= "raised"
       /\ pc = "parsed" =>
            /\ RUUVI_MFG_ID \in DOMAIN mfg_data
            /\ mfg_data[RUUVI_MFG_ID] = BodyOf(AD_TYPE_MFG, RUUVI_MFG_ID)
            /\ MIJIA_SVC_ID \in DOMAIN service_data
            /\ service_data[MIJIA_SVC_ID] = BodyOf(AD_TYPE_SVC16, MIJIA_SVC_ID)

\* C3 witness: the service element comes first, another element sits
\* between the two, and both payloads are non-empty and were recovered.
C3_Witness ==
    /\ pc = "parsed"
    /\ Len(built) = 3
    /\ built[1].ad_type = AD_TYPE_SVC16 /\ built[1].body = <<5, 7>>
    /\ built[2].ad_type = 1
    /\ built[3].ad_type = AD_TYPE_MFG /\ built[3].id = RUUVI_MFG_ID
    /\ built[3].body = <<5>>
    /\ mfg_data[RUUVI_MFG_ID] = <<5>>
    /\ service_data[MIJIA_SVC_ID] = <<5, 7>>

---------------------------------------------------------------------------
(* Properties of update_sensor_data, under SpecAgg: every step is a call;  *)
(* address' and metrics' are its arguments, now' its clock reading, sent'  *)
(* what it handed to the sink.                                             *)

Known(addr) == Named(addr) /= {}
TheSensor(addr) == CHOOSE d \in Devices : d \in Named(addr)

\* C4: a call for a known device hands over a batch iff now - last_sent >=
\* TX_INTERVAL, with last_sent as before the call (equality included); when
\* it does, last_sent becomes now; when it does not, last_sent is unchanged
\* and the accrued dict is the old one merged with the call's batch.
C4_FlushIffIntervalElapsed ==
    [][Known(address') =>
         LET d == TheSensor(address')
             old == SENSOR_MAP[d]
             new == SENSOR_MAP'[d]
             batch == metrics'.val
         IN  /\ (sent' /= <<>>) <=> (now' - old.last_sent >= TX_INTERVAL)
             /\ sent' /= <<>> => new.last_sent = now'
             /\ sent' = <<>> =>
                  /\ new.last_sent = old.last_sent
                  /\ DOMAIN new.accrued_data =
                        DOMAIN old.accrued_data \cup DOMAIN batch
                  /\ \A k \in DOMAIN new.accrued_data :
                        new.accrued_data[k] = IF k \in DOMAIN batch
                                              THEN batch[k]
                                              ELSE old.accrued_data[k]]_vars

\* C4 witness: two calls accrued two keys without flushing, and the call at
\* exactly now - last_sent = TX_INTERVAL handed both over.
C4_Witness ==
    /\ now = TX_INTERVAL
    /\ flushed_at[1] = <<TX_INTERVAL>>
    /\ SENSOR_MAP[1].last_sent = TX_INTERVAL
    /\ Len(sent) = 1
    /\ Len(sent[1].points) = 2
    /\ metrics.val = EmptyDict

\* C5: under the non-decreasing clock, two consecutive hand-overs of the
\* same device are at least TX_INTERVAL apart.
C5_FlushesSpaced ==
    \A d \in Devices : \A i \in 1..(Len(flushed_at[d]) - 1) :
        flushed_at[d][i + 1] - flushed_at[d][i] >= TX_INTERVAL

\* C5 witness: a device flushed twice, exactly TX_INTERVAL apart.
C5_Witness ==
    /\ Len(flushed_at[1]) = 2
    /\ flushed_at[1][2] - flushed_at[1][1] = TX_INTERVAL

Emitted(d) ==
    UNION {{sent[n].points[i] : i \in DOMAIN sent[n].points} :
              n \in {m \in DOMAIN sent : sent[m].sensor = d}}

\* C6 (as stated): a flush hands the sink exactly one batch with exactly
\* one entry per accrued key, each with the device's tags and the accrued
\* value, and right after it the device's accrued dict is empty.  Refuted
\* when send_sensor_data raises: line 200 is not reached.
C6_FlushEmptiesAccrued ==
    \A d \in Flushed(sent) :
        /\ Len(sent) = 1
        /\ Len(sent[1].points) = Cardinality(DOMAIN latest[d].vals)
        /\ \A k \in DOMAIN latest[d].vals :
              [measurement |-> k, tags |-> InitialSensorMap[d].tags,
               fields |-> [value |-> latest[d].vals[k]]] \in Emitted(d)
        /\ SENSOR_MAP[d].accrued_data = EmptyDict

\* C7: a call whose address names no configured device (compared case-
\* insensitively) changes no field of any device record and hands nothing
\* to the sink.
C7_UnknownAddressIsNoOp ==
    [][~Known(address') => (SENSOR_MAP' = SENSOR_MAP /\ sent' = <<>>)]_vars

\* C7 witness: the last call was for an unknown address while a known
\* device held accrued data, which is still there.
C7_Witness ==
    /\ address = "AA:BB:CC:DD:EE:FF"
    /\ metrics.val /= EmptyDict
    /\ sent = <<>>
    /\ SENSOR_MAP[1].accrued_data /= EmptyDict
    /\ SENSOR_MAP[1].last_sent = TX_INTERVAL

\* C8: last write wins per key.  For the batches merged for a device since
\* its last hand-over, a key's pending value is the value of the latest
\* batch that set it, and that is the value the next hand-over emits for
\* the key; no other value is emitted for it.
C8_LastWriteWins ==
    \A d \in Devices : \A k \in DOMAIN latest[d].vals :
        IF d \in Flushed(sent)
        THEN \A p \in Emitted(d) :
                p.measurement = k => p.fields.value = latest[d].vals[k]
        ELSE ~latest[d].closed =>
                /\ k \in DOMAIN SENSOR_MAP[d].accrued_data
                /\ SENSOR_MAP[d].accrued_data[k] = latest[d].vals[k]

\* C8 witness: within one window temperature was set to 1 and then to 2,
\* and the hand-over carried 2.
C8_Witness ==
    /\ 1 \in Flushed(sent)
    /\ TEMPERATURE_LABEL \in latest[1].stale
    /\ latest[1].vals[TEMPERATURE_LABEL] = 2
    /\ \E p \in Emitted(1) :
          p.measurement = TEMPERATURE_LABEL /\ p.fields.value = 2

---------------------------------------------------------------------------
(* Properties of the decoders *)

\* the big-endian 16-bit word at Python offsets off, off + 1, from its bytes
Word(off) == payload[off + 1] * 256 + payload[off + 2]

\* C10: for every format-5 payload of at least 15 bytes the decoded fields
\* are the reference: temperature raw is bytes [1:3) as a big-endian
\* two's-complement 16-bit number, humidity and pressure raws are bytes
\* [3:5) and [5:7) big-endian unsigned, and the power word at [13:15) is
\* 32 * battery offset + tx code with tx code in 0..31, the battery being
\* offset + 1600 mV in 1600..3647 and tx_power -40 + 2 * code in -40..22;
\* the sample gives raws 4090, 14025, 50906, 3055 mV and tx_power 4.
C10_RuuviFormat5Decode ==
    (pc = "decoded" /\ Len(payload) >= 15 /\ payload[1] = 5) =>
        /\ metrics.kind = "dict"
        /\ DOMAIN metrics.val = {"temperature", "humidity",
                                 "atmospheric_pressure", "battery_voltage",
                                 "tx_power"}
        /\ LET m == metrics.val
               traw == IF payload[2] >= 128 THEN Word(1) - 65536 ELSE Word(1)
               code == (m["tx_power"] + 40) \div 2
           IN  /\ m["temperature"] = 5 * traw
               /\ traw \in -32768..32767
               /\ m["humidity"] = 25 * Word(3)
               /\ m["atmospheric_pressure"] = Word(5) + 50000
               /\ m["battery_voltage"] \in 1600..3647
               /\ m["tx_power"] \in -40..22
               /\ m["tx_power"] = -40 + 2 * code
               /\ code \in 0..31
               /\ 32 * (m["battery_voltage"] - 1600) + code = Word(13)
               /\ Slice(payload, 0, 15) = RuuviSample =>
                    /\ m["temperature"] = 5 * 4090
                    /\ m["humidity"] = 25 * 14025
                    /\ m["atmospheric_pressure"] = 50906 + 50000
                    /\ m["battery_voltage"] = 3055
                    /\ m["tx_power"] = 4

\* C10 witness: a negative temperature was decoded from a 15-byte format-5
\* payload with the highest battery offset and tx code.
C10_Witness ==
    /\ pc = "decoded"
    /\ Len(payload) = 15
    /\ payload[2] = 128
    /\ metrics.kind = "dict"
    /\ metrics.val["temperature"] = 5 * (-32768)
    /\ metrics.val["battery_voltage"] = 3647
    /\ metrics.val["tx_power"] = 22

\* C11: a non-empty Ruuvi payload whose first byte is not 5, or whose first
\* byte is 5 but which is shorter than 15 bytes, decodes to the empty dict
\* and raises nothing.
C11_RuuviUnsupportedIsEmpty ==
    (pc = "decoded" /\ Len(payload) >= 1
        /\ (payload[1] /= 5 \/ Len(payload) < 15))
    => metrics = [kind |-> "dict", val |-> EmptyDict]

\* C11 witness: a 24-byte payload of format 3 decoded to the empty dict.
C11_Witness ==
    /\ pc = "decoded"
    /\ Len(payload) = 24
    /\ payload[1] = 3
    /\ metrics.kind = "dict"
    /\ DOMAIN metrics.val = {}

\* the little-endian 16-bit word at Python offsets off, off + 1
WordLE(off) == payload[off + 1] + 256 * payload[off + 2]

\* C12: for a Mijia payload long enough for its field the result is
\* decided by the byte at offset 11: 0x0D gives temperature and humidity
\* from the little-endian uint16 at offsets 14 and 16, each / 10; 0x06
\* gives humidity and 0x04 temperature from the uint16 at 14; 0x0A gives
\* battery_percent, the byte at 14; any other byte gives the empty dict.
\* The doctest payload (0x0D, 201, 453) gives 20.1 and 45.3.
C12_MijiaDecodeBySubType ==
    (pc = "decoded" /\ Len(payload) >= 12) =>
        LET st == payload[12]
            need == CASE st = 13 -> 18
                      [] st \in {6, 4} -> 16
                      [] st = 10 -> 15
                      [] OTHER -> 12
        IN  Len(payload) >= need =>
              /\ metrics.kind = "dict"
              /\ LET m == metrics.val
                 IN  CASE st = 13 ->
                            /\ DOMAIN m = {"temperature", "humidity"}
                            /\ m["temperature"] = 100 * WordLE(14)
                            /\ m["humidity"] = 1000 * WordLE(16)
                       [] st = 6 ->
                            /\ DOMAIN m = {"humidity"}
                            /\ m["humidity"] = 1000 * WordLE(14)
                       [] st = 4 ->
                            /\ DOMAIN m = {"temperature"}
                            /\ m["temperature"] = 100 * WordLE(14)
                       [] st = 10 ->
                            /\ DOMAIN m = {"battery_percent"}
                            /\ m["battery_percent"] = payload[15]
                       [] OTHER -> DOMAIN m = {}
              /\ payload = MijiaDoctest =>
                    /\ metrics.val["temperature"] = 20100
                    /\ metrics.val["humidity"] = 453000

\* C12 witness: the doctest payload decoded to 20.1 C and 45.3 %.
C12_Witness ==
    /\ pc = "decoded"
    /\ payload = MijiaDoctest
    /\ metrics.kind = "dict"
    /\ metrics.val = [temperature |-> 20100, humidity |-> 453000]

---------------------------------------------------------------------------
(* Properties of main, under Spec *)

\* C9 (as stated): for every record, whatever its advertisement bytes, no
\* exception leaves the parse -> decode -> aggregate pipeline and main goes
\* on to the next record.  Refuted: struct.error (a truncated TLV, a Mijia
\* payload too short for its sub-type) and TypeError (data['rssi'] = rssi
\* on the None an empty Ruuvi payload or a Mijia payload under 12 bytes
\* decodes to) are not among the handled exceptions.
C9_PipelineIsTotal ==
    ~(pc = "crashed" /\ exc \in {"struct.error", "TypeError"})


\* C13 (as stated): a Mijia payload of 12 bytes or more that is too short
\* at offset 14 for its sub-type's field fails for that record only: main
\* skips the record and goes on with the next one.  Refuted: the decoder
\* raises struct.error, which no except clause of main names, so main is
\* left with the record's service data still in hand.
C13_ShortMijiaFieldSkipsRecord ==
    (/\ MIJIA_SVC_ID \in DOMAIN service_data
     /\ Len(service_data[MIJIA_SVC_ID]) >= 12
     /\ parse_mijia_sensor_data(service_data[MIJIA_SVC_ID]).kind = "raise")
    => pc /= "crashed"

\* the vendor payload the step at pc is about to decode yields the empty dict
DecodesToNoMetrics ==
    \/ /\ pc = "ruuvi"
       /\ RUUVI_MFG_ID \in DOMAIN mfg_data
       /\ parse_ruuvi_mfg_data(mfg_data[RUUVI_MFG_ID]) = Dict(EmptyDict)
    \/ /\ pc = "mijia"
       /\ MIJIA_SVC_ID \in DOMAIN service_data
       /\ parse_mijia_sensor_data(service_data[MIJIA_SVC_ID]) = Dict(EmptyDict)

\* C14 (as stated): a record whose vendor payload decodes to no metrics is
\* a no-op for the aggregator: no device's accrued mapping or last_sent
\* changes and nothing is flushed.  Refuted: main adds rssi to the empty
\* result and calls update_sensor_data with it, so a known device accrues
\* rssi and flushes when its interval has elapsed.
C14_NoMetricsIsNoOp ==
    [][DecodesToNoMetrics =>
          /\ SENSOR_MAP' = SENSOR_MAP
          /\ flushed_at' = flushed_at
          /\ sent' = <<>> \/ sent' = sent]_vars

\* C15 (as stated): when send_sensor_data fails, the device record still
\* ends as after a successful flush: last_sent = now and accrued_data
\* empty.  Refuted: last_sent is set before the call (line 188) but the
\* dict is emptied after it (line 200), so a raise leaves the handed-over
\* metrics accrued and they are sent again by the next flush.
C15_FailedFlushStillEmpties ==
    exc = "sink" =>
        \A d \in Flushed(sent) :
            /\ SENSOR_MAP[d].last_sent = now
            /\ SENSOR_MAP[d].accrued_data = EmptyDict

\* what one pass of the loop at the cursor is claimed to do with the list
\* of elements: nothing for a length of 0 or 1, else append the type byte
\* with as many of the length - 1 payload bytes as the buffer holds
CapturedTruncated ==
    LET length == data[offset + 1]
        left == Len(data) - offset - 2
        n == IF left < length - 1 THEN left ELSE length - 1
    IN  IF length >= 2
        THEN Append(ad_elements,
                    [ad_type |-> data[offset + 2],
                     ad_data |-> [i \in 1..n |-> data[offset + 2 + i]]])
        ELSE ad_elements

\* C16 (as stated): a pass of the loop never raises; a record whose length
\* overruns the buffer is captured with the payload bytes that are there,
\* a record of length 0 or 1 is not captured, and the loop is left as soon
\* as the cursor is at or past the end.  Refuted: when the length byte is
\* the last byte of the buffer the record overruns it and the pass raises
\* struct.error instead of capturing or skipping it.
C16_OverrunIsTruncated ==
    [][pc = "parse" =>
          IF offset < Len(data)
          THEN /\ pc' = "parse"
               /\ ad_elements' = CapturedTruncated
          ELSE /\ pc' = "parse_ad_elements"
               /\ ad_elements' = ad_elements]_vars

---------------------------------------------------------------------------
(* Properties of parse_ad_elements on repeated identifiers, under SpecTlv *)

\* the positions in the buffer of the elements of type t with identifier i
PositionsOf(t, i) == {n \in DOMAIN built :
                        HasId(built[n]) /\ built[n].ad_type = t
                                        /\ built[n].id = i}

IdsOf(t) == {built[n].id : n \in {m \in DOMAIN built :
                                    HasId(built[m]) /\ built[m].ad_type = t}}

LastOf(t, i) == CHOOSE n \in PositionsOf(t, i) :
                    \A m \in PositionsOf(t, i) : m <= n

\* C17: after parse each table holds, for every identifier that occurs in
\* an element of its type, the payload of the last such element in buffer
\* order, and nothing else: elements with another identifier or of the
\* other type do not touch the entry.
C17_LastElementWins ==
    pc = "parsed" =>
        /\ DOMAIN mfg_data = IdsOf(AD_TYPE_MFG)
        /\ \A i \in IdsOf(AD_TYPE_MFG) :
              mfg_data[i] = built[LastOf(AD_TYPE_MFG, i)].body
        /\ DOMAIN service_data = IdsOf(AD_TYPE_SVC16)
        /\ \A i \in IdsOf(AD_TYPE_SVC16) :
              service_data[i] = built[LastOf(AD_TYPE_SVC16, i)].body

\* C17 witness: two manufacturer elements with id 1177 and different
\* payloads, a service element with the same id between them.
C17_Witness ==
    /\ pc = "parsed"
    /\ Len(built) = 3
    /\ built[1] = [ad_type |-> AD_TYPE_MFG, id |-> RUUVI_MFG_ID, body |-> <<5>>]
    /\ built[2] = [ad_type |-> AD_TYPE_SVC16, id |-> RUUVI_MFG_ID,
                   body |-> <<9>>]
    /\ built[3] = [ad_type |-> AD_TYPE_MFG, id |-> RUUVI_MFG_ID,
                   body |-> <<5, 7>>]
    /\ mfg_data = (RUUVI_MFG_ID :> <<5, 7>>)
    /\ service_data = (RUUVI_MFG_ID :> <<9>>)

---------------------------------------------------------------------------
(* Properties of update_sensor_data across devices, under SpecPair *)

\* C18: a call for a known device changes no field of any other device's
\* record, and no tags (nor address or label) of any record, its own
\* included, whether or not it hands a batch to the sink.
C18_UpdateTouchesOnlyItsDevice ==
    [][Known(address') =>
          \A d \in Devices :
              /\ d /= TheSensor(address') => SENSOR_MAP'[d] = SENSOR_MAP[d]
              /\ SENSOR_MAP'[d].tags = SENSOR_MAP[d].tags
              /\ SENSOR_MAP'[d].address = SENSOR_MAP[d].address
              /\ SENSOR_MAP'[d].label = SENSOR_MAP[d].label]_vars

\* C18 witness: a call for the first device has just flushed while the
\* fourth device, which flushed earlier, holds accrued data of its own.
C18_Witness ==
    /\ address = "E6:99:94:26:C5:C3"
    /\ 1 \in Flushed(sent)
    /\ SENSOR_MAP[1].accrued_data = EmptyDict
    /\ SENSOR_MAP[4].accrued_data /= EmptyDict
    /\ SENSOR_MAP[4].last_sent > 0
    /\ SENSOR_MAP[4].last_sent < now

---------------------------------------------------------------------------
(* Properties of the first flush of a device, under SpecAgg *)

\* C20: last_sent is 0 until a device's first flush, so an update for a
\* device that has not flushed yet (its first update in particular) hands
\* a batch over iff now >= TX_INTERVAL; no first flush is earlier than
\* that; and when the very first update flushes, the batch holds exactly
\* the metrics of that update.
C20_FirstFlushWaitsForInterval ==
    /\ [](\A d \in Devices :
             /\ flushed_at[d] = <<>> => SENSOR_MAP[d].last_sent = 0
             /\ flushed_at[d] /= <<>> => flushed_at[d][1] >= TX_INTERVAL)
    /\ [][(Known(address') /\ flushed_at[TheSensor(address')] = <<>>) =>
            LET d == TheSensor(address')
                batch == metrics'.val
            IN  /\ (d \in Flushed(sent')) <=> (now' >= TX_INTERVAL)
                /\ (d \in Flushed(sent') /\ latest[d].calls = 0) =>
                      /\ Len(sent') = 1
                      /\ Len(sent'[1].points) = Cardinality(DOMAIN batch)
                      /\ \A k \in DOMAIN batch :
                            [measurement |-> k,
                             tags |-> InitialSensorMap[d].tags,
                             fields |-> [value |-> batch[k]]]
                               \in {sent'[1].points[i] :
                                       i \in DOMAIN sent'[1].points}]_vars

\* C20 witness: the first update for the first device came at
\* now = TX_INTERVAL and its one metric was handed over at once.
C20_Witness ==
    /\ latest[1].calls = 1
    /\ now = TX_INTERVAL
    /\ flushed_at[1] = <<TX_INTERVAL>>
    /\ metrics = [kind |-> "dict", val |-> (TEMPERATURE_LABEL :> 2)]
    /\ Len(sent) = 1
    /\ Len(sent[1].points) = 1
    /\ sent[1].points[1].measurement = TEMPERATURE_LABEL
    /\ sent[1].points[1].fields.value = 2

---------------------------------------------------------------------------
(* Properties of accrued metrics over time, under SpecLive *)

MetricKeys == UNION {DOMAIN b : b \in LiveBatches}

\* the measurements of the batch just handed over for device d
Measurements(d) == {p.measurement : p \in Emitted(d)}

\* C19: a key leaves a device's accrued dict only in a call that hands
\* over a batch holding that key; and while the device keeps receiving
\* updates under an advancing clock, every accrued key is eventually in a
\* batch handed over (for keys accrued while the modelled clock can still
\* reach last_sent + TX_INTERVAL).
C19_AccruedIsEmitted ==
    /\ [][\A d \in Devices :
            \A k \in DOMAIN SENSOR_MAP[d].accrued_data :
               k \notin DOMAIN SENSOR_MAP'[d].accrued_data =>
                  \E n \in DOMAIN sent' :
                     /\ sent'[n].sensor = d
                     /\ \E i \in DOMAIN sent'[n].points :
                           sent'[n].points[i].measurement = k]_vars
    /\ \A d \in LiveDevices : \A k \in MetricKeys :
          (/\ k \in DOMAIN SENSOR_MAP[d].accrued_data
           /\ SENSOR_MAP[d].last_sent + TX_INTERVAL <= MaxTicks * Tick)
          ~> (d \in Flushed(sent) /\ k \in Measurements(d))

\* C19 witness: two keys accrued by calls before the interval had elapsed
\* were handed over together by a later call, and the dict is empty again.
C19_Witness ==
    /\ now = 3 * Tick
    /\ flushed_at[1] = <<3 * Tick>>
    /\ latest[1].calls = 2
    /\ Measurements(1) = {TEMPERATURE_LABEL, "rssi"}
    /\ SENSOR_MAP[1].accrued_data = EmptyDict

===========================================================================
